---- MODULE Spec2Model ----
\* Model of topologies/sdn-controller-interaction.py: the ODLController REST
\* client (get_topology .. delete_flow), the controller datastores its URLs
\* address, wait_for_topology_discovery and create_example_flow.
EXTENDS Integers, Sequences, FiniteSets, TLC

VARIABLES
    config,            \* controller config tree: node -> set of <<flow id, body>>
    operational,       \* controller operational tree: node -> set of <<flow id, body>>
    last,              \* the last client call: operation, arguments, transport, return
    prev,              \* the call before it, when that was a successful write
    prev2,             \* the call before that, when that was a successful write
    calls,             \* client operations called so far
    sent,              \* requests.get / put / delete invocations so far
    json_error_caught, \* build: is response.json()'s error a RequestException?
    wpc,               \* wait_for_topology_discovery: position
    timeout,           \* its argument
    poll_interval,     \* its argument
    now,               \* time.time()
    start_time,        \* its local start_time
    topology,          \* its local topology (the last get_topology return)
    polls,             \* get_topology calls made by the waiter
    sleeps,            \* time.sleep(poll_interval) calls made by the waiter
    latency,           \* how long the waiter's last get_topology call took
    seen,              \* kinds of answers the waiter's polls have had so far
    built,             \* create_example_flow: the last two calls, [ip, id]
    measurement_running, \* SDNTopology.measurement_running
    stats,             \* SDNTopology.stats: three lists (of iteration numbers)
    mpc,               \* run_experiment's thread: position
    cpc,               \* the measurement thread: position in _collect_measurements
    iteration,         \* the measurement thread: iterations begun
    ts_at_stop,        \* len(stats['timestamp']) when stop_measurement cleared the flag
    plot_after_exit,   \* did plot_measurements start after the thread had exited?
    plot_read          \* list lengths plot_measurements read

vars == <<config, operational, last, prev, prev2, calls, sent, json_error_caught,
          wpc, timeout, poll_interval, now, start_time, topology, polls,
          sleeps, latency, seen, built, measurement_running, stats, mpc, cpc,
          iteration, ts_at_stop, plot_after_exit, plot_read>>

clientVars == <<config, operational, last, prev, prev2, calls, sent>>
measureVars == <<measurement_running, stats, mpc, cpc, iteration, ts_at_stop,
                 plot_after_exit, plot_read>>
waitVars == <<wpc, timeout, poll_interval, now, start_time, topology, polls,
              sleeps, latency, seen>>

\* ---------------------------------------------------------------- bounds
MaxCalls == 3
MaxTimeout == 4
MaxPollInterval == 2
MaxLatency == 1
MaxEntries == 2
MaxSamples == 3

\* ---------------------------------------------------------------- values
Nodes == {"openflow:1", "openflow:2"}
FlowIds == {"f1", "f2"}
Bodies == {"b1", "b2"}
NoArg == "-"

\* What happens to one HTTP exchange.
\*   ok           delivered, handled, response received
\*   refused      DNS failure / connection refused: nothing delivered
\*   resp_lost    delivered and handled, the connection breaks before the response
\*   server_error delivered, answered with a non-2xx status, nothing changed
\*   bad_body     delivered, answered 2xx with a body that is not JSON
ReadTransports == {"ok", "refused", "resp_lost", "server_error", "bad_body"}
WriteTransports == {"ok", "refused", "resp_lost", "server_error"}

\* ---------------------------------------------------------------- topology snapshots
Missing == 0 - 1
\* a key's list: missing, empty, non-empty
Lens == {Missing, 0, 1}
Entries == [node : Lens, link : Lens]
EntrySeqs == UNION {[1 .. n -> Entries] : n \in 0 .. MaxEntries}

NoneValue == [kind |-> "None"]
RaisedValue == [kind |-> "raised"]
\* A parsed JSON object: nt = has 'network-topology', tp = that has 'topology',
\* entries = the list under it, other = the object has some other key.
JsonBodies ==
    {[kind |-> "json", nt |-> TRUE, tp |-> TRUE, other |-> FALSE, entries |-> es] :
        es \in EntrySeqs}
    \cup {[kind |-> "json", nt |-> TRUE, tp |-> FALSE, other |-> FALSE, entries |-> <<>>],
          [kind |-> "json", nt |-> FALSE, tp |-> FALSE, other |-> TRUE, entries |-> <<>>],
          [kind |-> "json", nt |-> FALSE, tp |-> FALSE, other |-> FALSE, entries |-> <<>>]}

\* ---------------------------------------------------------------- controller (REST resources)
\* The flow resources of one tree under .../node/{node_id}/.../table/0/flow/{flow_id}.
FlowIdsOf(tree, node_id) == {e[1] : e \in tree[node_id]}

Exists(tree, node_id, flow_id) == flow_id \in FlowIdsOf(tree, node_id)

\* A POST to the table: it adds an entry and replaces none.
PutAppends(tree, node_id, flow_id, flow_body) ==
    [tree EXCEPT ![node_id] = @ \cup {<<flow_id, flow_body>>}]

\* PUT on the flow resource: create it, or replace the one already there.
Put(tree, node_id, flow_id, flow_body) ==
    [tree EXCEPT ![node_id] =
        {e \in @ : e[1] # flow_id} \cup {<<flow_id, flow_body>>}]

\* A DELETE on the table URL: every flow of the node goes.
DeleteWholeTable(tree, node_id, flow_id) == [tree EXCEPT ![node_id] = {}]

\* A DELETE that misses the flow resource.
DeleteElsewhere(tree, node_id, flow_id) == tree

\* DELETE on the flow resource.
Delete(tree, node_id, flow_id) ==
    [tree EXCEPT ![node_id] = {e \in @ : e[1] # flow_id}]

\* Does the controller get to handle the request?
Delivered(transport) == transport \in {"ok", "resp_lost", "bad_body"}

\* ---------------------------------------------------------------- the try / except of every operation
\* The exception the try block ends with ("none": it reaches its return).
\*   requests.get/put/delete raises ConnectionError when the exchange breaks,
\*   raise_for_status raises HTTPError on a non-2xx status (found = FALSE: 404),
\*   response.json() raises JSONDecodeError on a body that is not JSON.
ExceptionOf(transport, found) ==
    CASE transport \in {"refused", "resp_lost"} -> "ConnectionError"
      [] transport = "server_error" -> "HTTPError"
      [] transport = "ok" /\ ~found -> "HTTPError"
      [] transport = "bad_body" -> "JSONDecodeError"
      [] OTHER -> "none"

\* An except clause that names ConnectionError alone.
IsConnectionErrorOnly(exc) == exc = "ConnectionError"

\* except requests.exceptions.RequestException: which exceptions it catches.
\* requests' own JSONDecodeError is a RequestException only in the builds where
\* json_error_caught holds; in the others response.json() raises a ValueError.
IsRequestException(exc) ==
    \/ exc \in {"ConnectionError", "HTTPError"}
    \/ exc = "JSONDecodeError" /\ json_error_caught

\* A read operation's return: response.json(), None, or the exception goes up.
ReadReturn(exc, value) ==
    IF exc = "none" THEN value
    ELSE IF IsRequestException(exc) THEN NoneValue
    ELSE RaisedValue

\* A write operation's return: True, False, or the exception goes up.
WriteReturn(exc) ==
    IF exc = "none" THEN [kind |-> "True"]
    ELSE IF IsRequestException(exc) THEN [kind |-> "False"]
    ELSE RaisedValue

\* A client that tries once more after a failure.
AttemptsWithRetry(exc) == IF exc = "none" THEN 1 ELSE 2

\* requests.* invocations one operation makes: one, inside the try, no loop.
Attempts(exc) == 1

\* ---------------------------------------------------------------- client calls
NoCall == [op |-> "none", node |-> NoArg, flow |-> NoArg, body |-> NoArg,
           transport |-> NoArg, ret |-> NoneValue]

NoWrite == [op |-> "none", node |-> NoArg, flow |-> NoArg, body |-> NoArg]

\* What is remembered of an earlier call: a write that returned True.
Summary(c) ==
    IF c.op \in {"install_flow", "delete_flow"} /\ c.ret.kind = "True"
    THEN [op |-> c.op, node |-> c.node, flow |-> c.flow, body |-> c.body]
    ELSE NoWrite

\* The caller is single-threaded and an uncaught exception ends it; the waiter
\* is the first thing main() calls, so client calls are made while it is idle.
CanCall == wpc = "idle" /\ last.ret.kind # "raised" /\ calls < MaxCalls

Record(op, node_id, flow_id, flow_body, transport, exc, ret) ==
    /\ last' = [op |-> op, node |-> node_id, flow |-> flow_id, body |-> flow_body,
                transport |-> transport, ret |-> ret]
    /\ prev' = Summary(last)
    /\ prev2' = prev
    /\ calls' = calls + 1
    /\ sent' = sent + Attempts(exc)

get_topology ==
    /\ CanCall
    /\ \E transport \in ReadTransports :
        LET exc == ExceptionOf(transport, TRUE)
        IN Record("get_topology", NoArg, NoArg, NoArg, transport, exc,
                  ReadReturn(exc, [kind |-> "json"]))
    /\ UNCHANGED <<config, operational, json_error_caught, waitVars, built, measureVars>>

get_nodes ==
    /\ CanCall
    /\ \E transport \in ReadTransports :
        LET exc == ExceptionOf(transport, TRUE)
        IN Record("get_nodes", NoArg, NoArg, NoArg, transport, exc,
                  ReadReturn(exc, [kind |-> "nodes", nodes |-> Nodes]))
    /\ UNCHANGED <<config, operational, json_error_caught, waitVars, built, measureVars>>

get_node_connectors(node_id) ==
    /\ CanCall
    /\ \E transport \in ReadTransports :
        LET exc == ExceptionOf(transport, TRUE)
        IN Record("get_node_connectors", node_id, NoArg, NoArg, transport, exc,
                  ReadReturn(exc, [kind |-> "node", id |-> node_id]))
    /\ UNCHANGED <<config, operational, json_error_caught, waitVars, built, measureVars>>

\* GET .../operational/.../node/{node_id}/flow-node-inventory:table/0
get_flows(node_id) ==
    /\ CanCall
    /\ \E transport \in ReadTransports :
        LET exc == ExceptionOf(transport, TRUE)
        IN Record("get_flows", node_id, NoArg, NoArg, transport, exc,
                  ReadReturn(exc, [kind |-> "flows", flows |-> operational[node_id]]))
    /\ UNCHANGED <<config, operational, json_error_caught, waitVars, built, measureVars>>

\* PUT .../config/.../node/{node_id}/flow-node-inventory:table/0/flow/{flow_id}
install_flow(node_id, flow_id, flow_body) ==
    /\ CanCall
    /\ \E transport \in WriteTransports :
        LET exc == ExceptionOf(transport, TRUE)
        IN /\ Record("install_flow", node_id, flow_id, flow_body, transport, exc,
                     WriteReturn(exc))
           /\ config' = IF Delivered(transport)
                        THEN Put(config, node_id, flow_id, flow_body)
                        ELSE config
    /\ UNCHANGED <<operational, json_error_caught, waitVars, built, measureVars>>

\* DELETE .../config/.../node/{node_id}/flow-node-inventory:table/0/flow/{flow_id}
delete_flow(node_id, flow_id) ==
    /\ CanCall
    /\ \E transport \in WriteTransports :
        LET exc == ExceptionOf(transport, Exists(config, node_id, flow_id))
        IN /\ Record("delete_flow", node_id, flow_id, NoArg, transport, exc,
                     WriteReturn(exc))
           /\ config' = IF Delivered(transport)
                        THEN Delete(config, node_id, flow_id)
                        ELSE config
    /\ UNCHANGED <<operational, json_error_caught, waitVars, built, measureVars>>

\* The controller programs the switch of one node from the config tree and the
\* operational tree (what get_flows reads) then shows what the switch holds.
Sync(node_id) ==
    /\ wpc = "idle"
    /\ operational[node_id] # config[node_id]
    /\ operational' = [operational EXCEPT ![node_id] = config[node_id]]
    /\ UNCHANGED <<config, last, prev, prev2, calls, sent, json_error_caught,
                   waitVars, built, measureVars>>

\* ---------------------------------------------------------------- wait_for_topology_discovery
\* Python truthiness of get_topology's return: None and {} are falsy.
Truthy(v) == v.kind = "json" /\ (v.nt \/ v.other)

\* A check that looks at the node list alone.
EntryReadyNodesOnly(topo) == topo.node # Missing /\ topo.node > 0

\* if 'node' in topo and 'link' in topo: if len(topo['node']) > 0 and len(topo['link']) > 0
EntryReady(topo) ==
    /\ topo.node # Missing /\ topo.link # Missing
    /\ topo.node > 0 /\ topo.link > 0

\* A loop that gives up after the first entry.
AnyEntryReadyFirstOnly(entries, i) ==
    IF i > Len(entries) THEN FALSE ELSE EntryReady(entries[i])

\* for topo in topology['network-topology']['topology']: ... return True
RECURSIVE AnyEntryReady(_, _)
AnyEntryReady(entries, i) ==
    IF i > Len(entries) THEN FALSE
    ELSE IF EntryReady(entries[i]) THEN TRUE
    ELSE AnyEntryReady(entries, i + 1)

\* The check of one poll's topology.
DiscoveryComplete(v) ==
    IF v.nt /\ v.tp THEN AnyEntryReady(v.entries, 1) ELSE FALSE

\* A loop that goes round once more at the deadline itself.
LoopConditionInclusive(elapsed, t) == elapsed <= t

\* while time.time() - start_time < timeout
LoopCondition(elapsed, t) == elapsed < t

\* A sleep that backs off.
SleepTimeDoubled(p) == 2 * p

\* time.sleep(poll_interval)
SleepTime(p) == p

\* What the controller answered to a poll, told from the exchange alone.
HasReadyEntry(v) ==
    /\ v.kind = "json" /\ v.nt /\ v.tp
    /\ \E i \in DOMAIN v.entries : v.entries[i].node >= 1 /\ v.entries[i].link >= 1

PollKind(transport, body) ==
    CASE transport \in {"refused", "resp_lost", "server_error"} -> "fail"
      [] transport = "bad_body" -> "malformed"
      [] HasReadyEntry(body) -> "ready"
      [] ~(body.nt /\ body.tp) -> "nokeys"
      [] OTHER -> "unready"

Timeouts == Missing .. MaxTimeout
PollIntervals == 1 .. MaxPollInterval

WaitStart(t, p) ==
    /\ wpc = "idle" /\ calls = 0
    /\ wpc' = "loop"
    /\ timeout' = t
    /\ poll_interval' = p
    /\ start_time' = now
    /\ UNCHANGED <<clientVars, json_error_caught, now, topology, polls, sleeps,
                   latency, seen, built, measureVars>>

LoopTest ==
    /\ wpc = "loop"
    /\ wpc' = IF LoopCondition(now - start_time, timeout) THEN "poll" ELSE "TIMED_OUT"
    /\ UNCHANGED <<clientVars, json_error_caught, timeout, poll_interval, now,
                   start_time, topology, polls, sleeps, latency, seen, built, measureVars>>

\* topology = self.get_topology(), which takes d of wall-clock time
Poll ==
    /\ wpc = "poll"
    /\ \E transport \in ReadTransports, d \in 0 .. MaxLatency :
       \E body \in IF transport = "ok" THEN JsonBodies ELSE {NoneValue} :
        LET exc == ExceptionOf(transport, TRUE)
            ret == ReadReturn(exc, body)
        IN /\ calls' = calls + 1
           /\ sent' = sent + Attempts(exc)
           /\ polls' = polls + 1
           /\ now' = now + d
           /\ latency' = d
           /\ seen' = seen \cup {PollKind(transport, body)} \cup (IF d > 0 THEN {"slow"} ELSE {})
           /\ IF ret.kind = "raised"
              THEN wpc' = "RAISED" /\ UNCHANGED topology
              ELSE wpc' = "check" /\ topology' = ret
    /\ UNCHANGED <<config, operational, last, prev, prev2, json_error_caught, timeout,
                   poll_interval, start_time, sleeps, built, measureVars>>

Check ==
    /\ wpc = "check"
    /\ IF Truthy(topology) /\ DiscoveryComplete(topology)
       THEN /\ wpc' = "READY"
            /\ UNCHANGED <<now, sleeps, topology>>
       ELSE /\ wpc' = "loop"
            /\ now' = now + SleepTime(poll_interval)
            /\ sleeps' = sleeps + 1
            \* the local is dead here: the next poll assigns it before any read
            /\ topology' = NoneValue
    /\ UNCHANGED <<clientVars, json_error_caught, timeout, poll_interval,
                   start_time, polls, latency, seen, built, measureVars>>

WaitNext ==
    \/ \E t \in Timeouts, p \in PollIntervals : WaitStart(t, p)
    \/ LoopTest
    \/ Poll
    \/ Check

\* ---------------------------------------------------------------- create_example_flow
\* Strings are sequences of one-character strings.
\* str.replace(old, new) for a one-character old and new.
RECURSIVE Replace(_, _, _)
Replace(str, old, new) ==
    IF str = <<>> THEN <<>>
    ELSE <<IF Head(str) = old THEN new ELSE Head(str)>> \o Replace(Tail(str), old, new)

FlowPrefix == <<"f", "l", "o", "w", "-", "t", "o", "-">>

\* A derivation that drops the separators.
FlowIdOfDotless(match_ip) == FlowPrefix \o SelectSeq(match_ip, LAMBDA c : c # ".")

\* "id": f"flow-to-{match_ip.replace('.', '-')}"
FlowIdOf(match_ip) == FlowPrefix \o Replace(match_ip, ".", "-")

\* Dotted-decimal IPv4 literals a caller passes: hosts of Mininet's 10.0.0.0/8.
Octets == {<<"0">>, <<"1">>, <<"2">>, <<"1", "0">>}
Ipv4Literals ==
    {<<"1", "0", ".">> \o b \o <<".">> \o c \o <<".">> \o d : b, c, d \in Octets}

\* One call; built keeps the last two calls, newest first.
create_example_flow(match_ip) ==
    /\ built' = <<[ip |-> match_ip, id |-> FlowIdOf(match_ip)]>>
                \o (IF built = <<>> THEN <<>> ELSE <<built[1]>>)
    /\ UNCHANGED <<clientVars, json_error_caught, waitVars, measureVars>>

NextFlowId == \E ip \in Ipv4Literals : create_example_flow(ip)

\* ---------------------------------------------------------------- SDNTopology measurements
otherVars == <<clientVars, json_error_caught, waitVars, built>>

\* start_measurement: self.measurement_running = True
StartSetFlag ==
    /\ mpc = "init"
    /\ measurement_running' = TRUE
    /\ mpc' = "starting"
    /\ UNCHANGED <<otherVars, stats, cpc, iteration, ts_at_stop, plot_after_exit, plot_read>>

\* start_measurement: self.measurement_thread.start()
StartThread ==
    /\ mpc = "starting"
    /\ cpc' = "test"
    /\ mpc' = "experiment"
    /\ UNCHANGED <<otherVars, measurement_running, stats, iteration, ts_at_stop,
                   plot_after_exit, plot_read>>

\* stop_measurement: self.measurement_running = False
StopClearFlag ==
    /\ mpc = "experiment"
    /\ measurement_running' = FALSE
    /\ ts_at_stop' = Len(stats.timestamp)
    /\ mpc' = "join"
    /\ UNCHANGED <<otherVars, stats, cpc, iteration, plot_after_exit, plot_read>>

\* stop_measurement: self.measurement_thread.join(timeout=2), the thread ended
JoinExited ==
    /\ mpc = "join" /\ cpc = "exited"
    /\ mpc' = "plot"
    /\ UNCHANGED <<otherVars, measurement_running, stats, cpc, iteration, ts_at_stop,
                   plot_after_exit, plot_read>>

\* stop_measurement: self.measurement_thread.join(timeout=2), the 2 s are over
JoinTimedOut ==
    /\ mpc = "join" /\ cpc # "exited"
    /\ mpc' = "plot"
    /\ UNCHANGED <<otherVars, measurement_running, stats, cpc, iteration, ts_at_stop,
                   plot_after_exit, plot_read>>

\* plot_measurements: if not self.stats['timestamp']: return; rel_time = [...]
PlotReadTimestamp ==
    /\ mpc = "plot"
    /\ plot_after_exit' = (cpc = "exited")
    /\ plot_read' = [plot_read EXCEPT !.timestamp = Len(stats.timestamp)]
    /\ mpc' = IF stats.timestamp = <<>> THEN "done" ELSE "plot_bandwidth"
    /\ UNCHANGED <<otherVars, measurement_running, stats, cpc, iteration, ts_at_stop>>

\* plot_measurements: plt.plot(rel_time, self.stats['bandwidth'], 'b-')
PlotReadBandwidth ==
    /\ mpc = "plot_bandwidth"
    /\ plot_read' = [plot_read EXCEPT !.bandwidth = Len(stats.bandwidth)]
    /\ mpc' = "plot_latency"
    /\ UNCHANGED <<otherVars, measurement_running, stats, cpc, iteration, ts_at_stop,
                   plot_after_exit>>

\* plot_measurements: plt.plot(rel_time, self.stats['latency'], 'r-')
PlotReadLatency ==
    /\ mpc = "plot_latency"
    /\ plot_read' = [plot_read EXCEPT !.latency = Len(stats.latency)]
    /\ mpc' = "done"
    /\ UNCHANGED <<otherVars, measurement_running, stats, cpc, iteration, ts_at_stop,
                   plot_after_exit>>

MainNext ==
    \/ StartSetFlag
    \/ StartThread
    \/ StopClearFlag
    \/ JoinExited
    \/ JoinTimedOut
    \/ PlotReadTimestamp
    \/ PlotReadBandwidth
    \/ PlotReadLatency

\* A loop that never looks at the flag.
KeepsCollectingAlways(flag) == TRUE

\* while self.measurement_running
KeepsCollecting(flag) == flag

\* The while test. (The experiment lasts MaxSamples iterations at most.)
CollectTest ==
    /\ cpc = "test"
    /\ KeepsCollecting(measurement_running) => Len(stats.timestamp) < MaxSamples
    /\ IF KeepsCollecting(measurement_running)
       THEN cpc' = "measure" /\ iteration' = iteration + 1
       ELSE cpc' = "exited" /\ UNCHANGED iteration
    /\ UNCHANGED <<otherVars, measurement_running, stats, mpc, ts_at_stop,
                   plot_after_exit, plot_read>>

\* timestamp = time.time(); bw_utilization = ...; latency = ...
CollectMeasure ==
    /\ cpc = "measure"
    /\ cpc' = "append_timestamp"
    /\ UNCHANGED <<otherVars, measurement_running, stats, mpc, iteration, ts_at_stop,
                   plot_after_exit, plot_read>>

\* self.stats[key].append(...), then on to the next statement
CollectAppend(key, at, next) ==
    /\ cpc = at
    /\ stats' = [stats EXCEPT ![key] = Append(@, iteration)]
    /\ cpc' = next
    /\ UNCHANGED <<otherVars, measurement_running, mpc, iteration, ts_at_stop,
                   plot_after_exit, plot_read>>

\* time.sleep(interval)
CollectSleep ==
    /\ cpc = "sleep"
    /\ cpc' = "test"
    /\ UNCHANGED <<otherVars, measurement_running, stats, mpc, iteration, ts_at_stop,
                   plot_after_exit, plot_read>>

CollectorNext ==
    \/ CollectTest
    \/ CollectMeasure
    \/ CollectAppend("timestamp", "append_timestamp", "append_bandwidth")
    \/ CollectAppend("bandwidth", "append_bandwidth", "append_latency")
    \/ CollectAppend("latency", "append_latency", "sleep")
    \/ CollectSleep

MeasureNext == MainNext \/ CollectorNext

ClientNext ==
    \/ get_topology
    \/ get_nodes
    \/ \E n \in Nodes : get_node_connectors(n)
    \/ \E n \in Nodes : get_flows(n)
    \/ \E n \in Nodes, f \in FlowIds, b \in Bodies : install_flow(n, f, b)
    \/ \E n \in Nodes, f \in FlowIds : delete_flow(n, f)
    \/ \E n \in Nodes : Sync(n)

Init ==
    /\ config = [n \in Nodes |-> {}]
    /\ operational = [n \in Nodes |-> {}]
    /\ last = NoCall
    /\ prev = NoWrite
    /\ prev2 = NoWrite
    /\ calls = 0
    /\ sent = 0
    /\ json_error_caught \in BOOLEAN
    /\ wpc = "idle"
    /\ timeout = 0
    /\ poll_interval = 0
    /\ now = 0
    /\ start_time = 0
    /\ topology = NoneValue
    /\ polls = 0
    /\ sleeps = 0
    /\ latency = 0
    /\ seen = {}
    /\ built = <<>>
    /\ measurement_running = FALSE
    /\ stats = [timestamp |-> <<>>, bandwidth |-> <<>>, latency |-> <<>>]
    /\ mpc = "init"
    /\ cpc = "none"
    /\ iteration = 0
    /\ ts_at_stop = Missing
    /\ plot_after_exit = FALSE
    /\ plot_read = [timestamp |-> Missing, bandwidth |-> Missing, latency |-> Missing]

Next == ClientNext \/ WaitNext

Spec == Init /\ [][Next]_vars

\* The waiter runs to its end: the caller's thread is never starved.
FairSpec == Spec /\ WF_vars(WaitNext)

\* run_experiment's measurement: its thread and the collector thread, both scheduled.
SpecMeasure == Init /\ [][MeasureNext]_vars /\ WF_vars(MainNext) /\ WF_vars(CollectorNext)

\* The flow descriptor construction alone.
SpecFlowId == Init /\ [][NextFlowId]_vars

\* ================================================================ claims
Elapsed == now - start_time
Terminal == {"READY", "TIMED_OUT"}
TransportFailures == {"refused", "resp_lost", "server_error"}
ReadOps == {"get_topology", "get_nodes", "get_node_connectors", "get_flows"}
WriteOps == {"install_flow", "delete_flow"}
\* This step is a client call (not a Sync, not a waiter step).
IsCall == calls' = calls + 1 /\ wpc = "idle"

\* C1: the poll whose response holds an entry with a non-empty node list and a
\* non-empty link list is answered by returning True at once, with no further
\* poll or sleep, whatever the other entries hold; so no poll before it held one.
C1_ReadyEntryReturnsTrue ==
    /\ [][(wpc = "check" /\ HasReadyEntry(topology))
            => (wpc' = "READY" /\ polls' = polls /\ sleeps' = sleeps
                /\ now' = now /\ sent' = sent)]_vars
    /\ [][wpc = "READY" => (wpc' = "READY" /\ polls' = polls /\ sleeps' = sleeps
                            /\ sent' = sent)]_vars
    /\ []("ready" \in seen => (wpc \in {"check", "READY"} /\ HasReadyEntry(topology)))

\* Reached: True on the second poll, from a response whose first entry lacks
\* both keys and whose second entry is the ready one.
C1_Witness ==
    /\ wpc = "READY" /\ polls = 2 /\ sleeps = 1
    /\ Len(topology.entries) = 2
    /\ topology.entries[1] = [node |-> Missing, link |-> Missing]
    /\ topology.entries[2] = [node |-> 1, link |-> 1]

OnlyUnready == polls >= 1 /\ seen \subseteq {"unready", "slow"}

\* C2 as stated: with only unready responses the waiter never returns True and
\* returns False with timeout <= elapsed < timeout + poll_interval.
C2_Original ==
    OnlyUnready =>
        /\ wpc \notin {"READY", "RAISED"}
        /\ wpc = "TIMED_OUT" =>
            (Elapsed >= timeout /\ Elapsed < timeout + poll_interval)

\* C2 (amended): with only unready responses the waiter never returns True; it
\* returns False after one sleep per poll with elapsed >= timeout, and its last
\* poll began before the timeout: elapsed < timeout + poll_interval + the time
\* the last get_topology call took.
C2_Amended ==
    OnlyUnready =>
        /\ wpc \notin {"READY", "RAISED"}
        /\ wpc = "TIMED_OUT" =>
            /\ Elapsed >= timeout
            /\ Elapsed < timeout + poll_interval + latency
            /\ sleeps = polls

\* Reached: False after two or more polls of unready responses, with an
\* overshoot of a whole poll_interval or more.
C2_Witness ==
    /\ wpc = "TIMED_OUT" /\ OnlyUnready /\ polls >= 2
    /\ Elapsed >= timeout + poll_interval

OnlyFailures == polls >= 1 /\ seen \subseteq {"fail", "slow"}

\* C3: when the transport fails on every poll, get_topology returns None each
\* time, nothing is raised, each failed poll is followed by one sleep of
\* poll_interval, and the waiter returns False only once the timeout has elapsed.
C3_TransportFailureTimesOut ==
    /\ [](OnlyFailures =>
            /\ wpc \notin {"READY", "RAISED"}
            /\ wpc = "check" => topology = NoneValue
            /\ wpc = "TIMED_OUT" => (Elapsed >= timeout /\ sleeps = polls))
    /\ [][(wpc = "check" /\ topology = NoneValue)
            => (wpc' = "loop" /\ now' = now + poll_interval
                /\ sleeps' = sleeps + 1 /\ polls' = polls)]_vars

\* Reached: False after three polls that all failed.
C3_Witness ==
    wpc = "TIMED_OUT" /\ OnlyFailures /\ polls = 3 /\ sleeps = 3 /\ "slow" \notin seen

\* The last three calls were install_flow(n, f, _), delete_flow(n, f) and
\* get_flows(n), the writes returned True and the read returned the table.
RoundTripRead ==
    /\ prev2.op = "install_flow" /\ prev.op = "delete_flow"
    /\ prev.node = prev2.node /\ prev.flow = prev2.flow
    /\ last.op = "get_flows" /\ last.node = prev.node /\ last.ret.kind = "flows"

\* The last two calls were install_flow(n, f, _) and delete_flow(n, f) and the
\* install returned True.
DeleteAfterInstall ==
    /\ prev.op = "install_flow" /\ last.op = "delete_flow"
    /\ last.node = prev.node /\ last.flow = prev.flow

\* C4 as stated: install_flow then delete_flow of the same flow under a healthy
\* controller return True and True, and the get_flows that follows does not
\* list the flow.
C4_Original ==
    /\ (DeleteAfterInstall /\ last.transport = "ok") => last.ret.kind = "True"
    /\ RoundTripRead => prev.flow \notin {e[1] : e \in last.ret.flows}

\* A get_flows call returns the operational tree of its node, which after a
\* successful delete_flow(n, f) lists f only if it is not level with config.
C4_ReadStep ==
    (IsCall /\ last'.op = "get_flows" /\ last'.ret.kind = "flows") =>
        (/\ last'.ret.flows = operational[last'.node]
         /\ ((/\ DeleteAfterInstall /\ last.ret.kind = "True"
              /\ last'.node = last.node
              /\ operational[last.node] = config[last.node])
             => last.flow \notin {e[1] : e \in last'.ret.flows}))

\* C4 (amended): install_flow then delete_flow of the same flow under a healthy
\* controller return True and True and leave the flow absent from the config
\* tree both write; the get_flows that follows returns the operational tree,
\* and does not list the flow when that tree was level with the config tree at
\* the read.
C4_Amended ==
    /\ []((DeleteAfterInstall /\ last.transport = "ok") =>
            (last.ret.kind = "True" /\ ~Exists(config, last.node, last.flow)))
    /\ [](RoundTripRead => ~Exists(config, prev.node, prev.flow))
    /\ [][C4_ReadStep]_vars

\* Reached: the round trip, read while the two trees were level.
C4_Witness ==
    /\ RoundTripRead
    /\ last.ret.flows = config[last.node]
    /\ operational = config

\* delete_flow of a flow the config tree does not hold is answered 404.
C5_DeleteMissingStep ==
    (/\ IsCall /\ last'.op = "delete_flow" /\ last'.transport = "ok"
     /\ ~Exists(config, last'.node, last'.flow))
    => last'.ret.kind = "False"

C5_FailedCallReturn ==
    last.transport \in TransportFailures =>
        /\ last.op \in ReadOps => last.ret = NoneValue
        /\ last.op \in WriteOps => last.ret.kind = "False"

\* C5: a connection failure or a non-2xx status is never raised: a read
\* operation returns None and a write operation returns False; a delete_flow
\* of a flow that is not there (404) returns False; the waiter's get_topology
\* raises on no answer but a malformed body.
C5_TransportErrorsAbsorbed ==
    /\ []C5_FailedCallReturn
    /\ [][C5_DeleteMissingStep]_vars
    /\ [](wpc = "RAISED" => "malformed" \in seen)

\* Reached: a write answered with a non-2xx status, after a call that worked.
C5_Witness ==
    /\ last.op = "install_flow" /\ last.transport = "server_error"
    /\ last.ret.kind = "False" /\ prev.op = "install_flow"

C6_InstallStep ==
    (IsCall /\ last'.op = "install_flow" /\ last'.transport = "ok") =>
        (/\ last'.ret.kind = "True"
         /\ {e \in config'[last'.node] : e[1] = last'.flow}
                = {<<last'.flow, last'.body>>}
         /\ ((/\ last.op = "install_flow" /\ last.ret.kind = "True"
              /\ last.node = last'.node /\ last.flow = last'.flow
              /\ last.body = last'.body)
             => config' = config))

\* C6: install_flow under a healthy controller returns True and leaves exactly
\* one entry for (node, id), holding the body given: over an existing flow it
\* replaces; called again with the same arguments it changes nothing.
C6_InstallIsIdempotentReplace ==
    /\ [][C6_InstallStep]_vars
    /\ [](\A n \in Nodes : Cardinality(config[n]) = Cardinality(FlowIdsOf(config, n)))

\* Reached: the same install twice in a row, over a flow that held another body.
C6_Witness ==
    /\ last.op = "install_flow" /\ last.ret.kind = "True"
    /\ prev = [op |-> "install_flow", node |-> last.node, flow |-> last.flow,
               body |-> last.body]
    /\ prev2.op = "install_flow" /\ prev2.node = last.node
    /\ prev2.flow = last.flow /\ prev2.body # last.body
    /\ config[last.node] = {<<last.flow, last.body>>}

Digits == {"0", "1", "2"}
ExampleIp == <<"1", "0", ".", "0", ".", "0", ".", "2">>
ExampleId == <<"f", "l", "o", "w", "-", "t", "o", "-",
               "1", "0", "-", "0", "-", "0", "-", "2">>

\* C8: the identifier is "flow-to-" followed by the address with each '.'
\* turned into '-' and every other character kept; "10.0.0.2" gives
\* "flow-to-10-0-0-2"; two distinct dotted-decimal addresses get distinct
\* identifiers.
C8_FlowIdDerivation ==
    /\ \A i \in DOMAIN built :
        LET ip == built[i].ip
            id == built[i].id
        IN /\ Len(id) = 8 + Len(ip)
           /\ SubSeq(id, 1, 8) = FlowPrefix
           /\ \A k \in DOMAIN ip :
                id[8 + k] = (IF ip[k] = "." THEN "-" ELSE ip[k])
           /\ ip = ExampleIp => id = ExampleId
    /\ Len(built) = 2 =>
        (built[1].id = built[2].id <=> built[1].ip = built[2].ip)

\* Reached: the example address built after a different one.
C8_Witness ==
    /\ Len(built) = 2 /\ built[1].ip = ExampleIp /\ built[1].id = ExampleId
    /\ built[2].ip # ExampleIp

\* C9: timeout = 4, poll_interval = 2, every response an empty topology that
\* arrives at once: False after exactly 2 polls, at 4 seconds.
C9_TwoPollsInFourSeconds ==
    (timeout = 4 /\ poll_interval = 2 /\ seen \subseteq {"unready", "nokeys"}) =>
        /\ wpc \notin {"READY", "RAISED"}
        /\ polls <= 2
        /\ wpc = "TIMED_OUT" => (polls = 2 /\ sleeps = 2 /\ Elapsed = 4)

C9_Witness ==
    /\ wpc = "TIMED_OUT" /\ timeout = 4 /\ poll_interval = 2
    /\ seen = {"unready"} /\ polls = 2 /\ Elapsed = 4

\* C10 as stated: whatever the controller answers, the waiter stops only in
\* READY or TIMED_OUT, and once there makes no further poll and stays.
C10_Original ==
    /\ [](wpc = "idle" \/ wpc \in Terminal \/ ENABLED WaitNext)
    /\ [][(wpc \in Terminal) => (wpc' = wpc /\ polls' = polls)]_vars
    /\ (wpc = "loop") ~> (wpc \in Terminal)

\* A parsed response without the nested keys: no 'network-topology', no
\* 'topology' under it, or entries that all lack 'node' or lack 'link'.
LacksKeys(v) ==
    /\ v.kind = "json"
    /\ \/ ~v.nt
       \/ ~v.tp
       \/ /\ v.entries # <<>>
          /\ \A i \in DOMAIN v.entries :
                v.entries[i].node = Missing \/ v.entries[i].link = Missing

C11_NotReadyStep ==
    (wpc = "check" /\ LacksKeys(topology)) =>
        (/\ wpc' = "loop"
         /\ now' = now + poll_interval
         /\ sleeps' = sleeps + 1
         /\ polls' = polls)

C11_PollsAgainStep ==
    (wpc = "loop" /\ now - start_time < timeout) => wpc' = "poll"

\* C11: a parsed response that lacks the nested keys is taken as not yet
\* ready: nothing is raised, the waiter sleeps poll_interval and, while the
\* timeout has not elapsed, polls again.
C11_MissingKeysNotReady ==
    /\ [][C11_NotReadyStep]_vars
    /\ [][C11_PollsAgainStep]_vars
    /\ []((polls >= 1 /\ seen \subseteq {"nokeys", "slow"}) => wpc \notin {"READY", "RAISED"})

\* Reached: a second poll made after a response without 'network-topology' or
\* 'topology', itself answered by an entry with nodes and no 'link' key.
C11_Witness ==
    /\ wpc = "check" /\ polls = 2 /\ sleeps = 1 /\ "nokeys" \in seen
    /\ topology.kind = "json" /\ Len(topology.entries) = 1
    /\ topology.entries[1] = [node |-> 1, link |-> Missing]

\* The flows of the two trees other than (node_id, flow_id) are as before.
OthersUnchanged(node_id, flow_id) ==
    /\ operational' = operational
    /\ \A n \in Nodes, f \in FlowIds :
        (n # node_id \/ f # flow_id) =>
            {e \in config'[n] : e[1] = f} = {e \in config[n] : e[1] = f}

\* C12 as stated: a write call leaves every flow other than its own
\* (node_id, flow_id) unchanged, and a call returning False changes no flow.
C12_OriginalStep ==
    (IsCall /\ last'.op \in WriteOps) =>
        (/\ OthersUnchanged(last'.node, last'.flow)
         /\ (last'.ret.kind = "False" => config' = config))

C12_Original == [][C12_OriginalStep]_vars

C12_AmendedStep ==
    /\ (IsCall /\ last'.op \in WriteOps) =>
        (/\ OthersUnchanged(last'.node, last'.flow)
         /\ ((last'.ret.kind = "False" /\ last'.transport # "resp_lost")
                => config' = config))
    /\ (IsCall /\ last'.op \in ReadOps) =>
        (config' = config /\ operational' = operational)

\* C12 (amended): a write call leaves every flow other than its own
\* (node_id, flow_id) unchanged in both trees, and a read call changes none; a
\* call returning False changes no flow when the request was not delivered or
\* was answered with a non-2xx status, but when the connection broke after the
\* controller handled it, its own flow may have changed.
C12_Amended == [][C12_AmendedStep]_vars

\* Reached: one of two flows of a node deleted, the other still there.
C12_Witness ==
    /\ last.op = "delete_flow" /\ last.ret.kind = "True"
    /\ prev.op = "install_flow" /\ prev2.op = "install_flow"
    /\ Cardinality(config[last.node]) = 1
    /\ last.flow \notin FlowIdsOf(config, last.node)

\* C13 as stated: a read operation answered 2xx with a body that is not JSON
\* returns None like any transport failure; a read has two outcomes, a value
\* or None, and never raises.
C13_Original ==
    last.op \in ReadOps =>
        /\ last.transport = "bad_body" => last.ret = NoneValue
        /\ last.ret.kind # "raised"

\* C14: called with timeout <= 0 the waiter makes no poll and no request and
\* returns False, whatever the controller would have answered.
C14_NoPollWithoutTimeout ==
    (wpc # "idle" /\ timeout <= 0) =>
        /\ wpc \in {"loop", "TIMED_OUT"}
        /\ polls = 0 /\ sent = 0 /\ sleeps = 0 /\ seen = {}

\* Reached: False returned at once for a negative timeout.
C14_Witness ==
    wpc = "TIMED_OUT" /\ timeout < 0 /\ polls = 0 /\ now = start_time


\* ---------------------------------------------------------------- C15
Lengths == [k \in {"timestamp", "bandwidth", "latency"} |-> Len(stats[k])]
MidIteration == cpc \in {"append_bandwidth", "append_latency"}
Stopped == ts_at_stop # Missing

C15_ListsInvariant ==
    /\ Lengths.timestamp >= Lengths.bandwidth
    /\ Lengths.bandwidth >= Lengths.latency
    /\ Lengths.latency >= Lengths.timestamp - 1
    /\ ~MidIteration => (Lengths.timestamp = Lengths.bandwidth /\ Lengths.bandwidth = Lengths.latency)
    /\ Stopped => Lengths.timestamp <= ts_at_stop + 1
    /\ (mpc = "done" /\ plot_after_exit) =>
          /\ plot_read.timestamp = Lengths.timestamp
          /\ plot_read.timestamp > 0 =>
                (plot_read.bandwidth = plot_read.timestamp /\ plot_read.latency = plot_read.timestamp)

C15_NoNewIterationStep ==
    (Stopped /\ cpc \in {"test", "sleep", "exited"}) =>
        (cpc' \in {"test", "sleep", "exited"} /\ iteration' = iteration /\ stats' = stats)

\* C15: with one collector thread, len(timestamp) >= len(bandwidth) >= len(latency)
\* >= len(timestamp) - 1 in every state, and the three lengths are equal whenever the
\* collector is not between its appends; once stop_measurement has cleared the flag
\* the collector begins no new iteration, appends at most the sample it was taking,
\* and exits; plot_measurements begun after the exit reads lists of equal length.
C15_MeasurementListsAligned ==
    /\ []C15_ListsInvariant
    /\ [][C15_NoNewIterationStep]_vars
    /\ (Stopped ~> cpc = "exited")

\* C15 witness: the flag was cleared during the second iteration, the collector
\* finished that sample and exited, and the plot then read two samples of each list.
C15_Witness ==
    /\ mpc = "done" /\ plot_after_exit /\ cpc = "exited"
    /\ ts_at_stop = 1
    /\ plot_read = [timestamp |-> 2, bandwidth |-> 2, latency |-> 2]
====
